---- MODULE Spec2Model ----
(***************************************************************************)
(* DBTA GP2 JSO survey dashboard: the two Streamlit scripts of the         *)
(* repository, src/ai.py (Yes/No, Rating, Collaboration, Graduate          *)
(* Analysis, AI mode, PDF export) and src/app.py (Yes/No, Rating,          *)
(* Collaboration with packed columns).                                     *)
(*                                                                         *)
(* A state is the loaded survey table together with the sidebar controls   *)
(* and the results of the last run of one of the scripts.  Streamlit       *)
(* re-executes a script from top to bottom on every control change, so     *)
(* one action is one whole run: column detection, the selected analysis    *)
(* branch and what it reports.                                             *)
(*                                                                         *)
(* Text is modelled by TLA+ strings and computed on character by           *)
(* character.  A cell is modelled by its str() rendering: <<>> is a        *)
(* missing cell (NaN), <<s>> a cell whose rendering is s.  pandas 2.x      *)
(* semantics are assumed (astype(str) renders NaN as "nan").  The check    *)
(* mark and the root sign of the token lists are written "^" and "~"       *)
(* (the module is ASCII).  Percentages are integers in tenths of a percent *)
(* (667 is 66.7), averages in hundredths.                                  *)
(***************************************************************************)
EXTENDS Integers, Sequences, FiniteSets, TLC

----------------------------------------------------------------------------
(* Python string operations used by the scripts *)

UPPER == "ABCDEFGHIJKLMNOPQRSTUVWXYZ"
LOWER == "abcdefghijklmnopqrstuvwxyz"
DIGITS == "0123456789"

CharAt(s, i) == SubSeq(s, i, i)

Chars(s) == {CharAt(s, i) : i \in 1..Len(s)}

\* 0 when c is not a character of s, else the first position of c in s
IndexIn(c, s) ==
  IF \E i \in 1..Len(s) : CharAt(s, i) = c
  THEN CHOOSE i \in 1..Len(s) : CharAt(s, i) = c /\ \A j \in 1..(i-1) : CharAt(s, j) # c
  ELSE 0

LowerOf == [c \in Chars(UPPER) |-> CharAt(LOWER, IndexIn(c, UPPER))]

UpperOf == [c \in Chars(LOWER) |-> CharAt(UPPER, IndexIn(c, LOWER))]

DigitOf == [c \in Chars(DIGITS) |-> IndexIn(c, DIGITS) - 1]

LowerChar(c) == IF c \in DOMAIN LowerOf THEN LowerOf[c] ELSE c

UpperChar(c) == IF c \in DOMAIN UpperOf THEN UpperOf[c] ELSE c

IsAlpha(c) == c \in DOMAIN LowerOf \/ c \in DOMAIN UpperOf

IsDigit(c) == c \in DOMAIN DigitOf

IsSpace(c) == c = " "

\* str.lower(), character by character
RECURSIVE lower_chars(_)
lower_chars(s) == IF s = "" THEN "" ELSE LowerChar(Head(s)) \o lower_chars(Tail(s))

RECURSIVE lstrip(_)
lstrip(s) == IF s # "" /\ IsSpace(Head(s)) THEN lstrip(Tail(s)) ELSE s

RECURSIVE rstrip(_)
rstrip(s) ==
  IF s # "" /\ IsSpace(CharAt(s, Len(s))) THEN rstrip(SubSeq(s, 1, Len(s) - 1)) ELSE s

\* str.strip(), character by character
strip_chars(s) == rstrip(lstrip(s))

\* the Python test  sub in s  (and str.contains with a plain pattern),
\* character by character
contains_chars(s, sub) ==
  \E i \in 1..(Len(s) - Len(sub) + 1) : SubSeq(s, i, i + Len(sub) - 1) = sub

\* str.title() helper: capitalise the first letter of every run of letters
RECURSIVE TitleFrom(_, _)
TitleFrom(s, inWord) ==
  IF s = "" THEN ""
  ELSE LET c == Head(s)
       IN (IF IsAlpha(c) THEN (IF inWord THEN LowerChar(c) ELSE UpperChar(c)) ELSE c)
            \o TitleFrom(Tail(s), IsAlpha(c))

\* str.title()
title(s) == TitleFrom(s, FALSE)

\* the digits of a non-empty all-digit string, as a number
RECURSIVE DigitsVal(_, _)
DigitsVal(s, acc) ==
  IF s = "" THEN acc ELSE DigitsVal(Tail(s), 10 * acc + DigitOf[Head(s)])

IsNumberText(s) ==
  LET t == strip_chars(s) IN t # "" /\ \A i \in 1..Len(t) : IsDigit(CharAt(t, i))

----------------------------------------------------------------------------
(* Cells *)

NA == <<>>

Txt(s) == <<s>>

IsNA(cell) == cell = NA

\* Series.astype(str) on one cell: a missing cell renders as "nan"
astype_str(cell) == IF IsNA(cell) THEN "nan" ELSE cell[1]

\* pd.to_numeric[errors="coerce"] on one cell: <<>> (NaN) or <<n>>
to_numeric_chars(cell) ==
  IF IsNA(cell) \/ ~IsNumberText(cell[1]) THEN <<>>
  ELSE <<DigitsVal(strip_chars(cell[1]), 0)>>

Range(f) == {f[i] : i \in DOMAIN f}

----------------------------------------------------------------------------
(* Survey tables the model loads.  A table is [cols, rows]: the headers in   *)
(* sheet order and the rows, each a tuple of cells in header order.  Rows    *)
(* are listed in a fixed order of the row pool: nothing the scripts compute  *)
(* depends on the order of the rows.                                         *)

MaxRows == 3

CountryHeader == "Country"

CountryCells == <<Txt("Kenya"), Txt("Uganda")>>

AnswerHeader == "Has plan"

\* answers: yes/no in mixed case with surrounding blanks, a yes token that is
\* also a rating, ratings in and out of range, a blank marker, a missing cell
AnswerCells == <<NA, Txt("Yes"), Txt("NO "), Txt("1"), Txt("3"), Txt("7"), Txt("none")>>

\* row k of the pool of rows over a sequence of cells: a country and a cell
PoolRow(cells, k) ==
  <<CountryCells[((k - 1) \div Len(cells)) + 1], cells[((k - 1) % Len(cells)) + 1]>>

Sorted(f) == \A i \in DOMAIN f : \A j \in DOMAIN f : i < j => f[i] <= f[j]

\* the tables of a country column and one more column, of up to max rows
TablesOf(header, cells, max) ==
  UNION {
    { [cols |-> <<CountryHeader, header>>, rows |-> [i \in 1..n |-> PoolRow(cells, f[i])]] :
        f \in {g \in [1..n -> 1..(Len(CountryCells) * Len(cells))] : Sorted(g)} } :
      n \in 0..max }

\* three respondents of two countries and their answers to a yes/no question
ExampleAnswerTable ==
  [cols |-> <<CountryHeader, AnswerHeader>>,
   rows |-> << <<CountryCells[1], Txt("Yes")>>,
               <<CountryCells[1], Txt("No")>>,
               <<CountryCells[2], Txt("Yes")>> >>]

\* a column of the respondent's identity
IdentityHeader == "Contact email"

\* a country column and one question column, or one identity column that
\* holds yes/no answers and ratings
AnswerTables ==
  TablesOf(AnswerHeader, AnswerCells, MaxRows) \cup {ExampleAnswerTable}
    \cup TablesOf(IdentityHeader, <<AnswerCells[2], AnswerCells[5]>>, MaxRows)

MaxGradCols == 3

\* headers of graduate counts: with and without a metric keyword, two headers
\* with a keyword for the same year and gender, a year with no gender
GradHeaders ==
  {"Placed by JSO 2023 Male", "Placed by JSO 2023 Female",
   "Placed by the JSO 2023 Male", "Trained 2023 Male", "Trained 2023 Female",
   "Intake 2022"}

\* the count in the column at each place of a graduate table: no two columns
\* hold the same count
GradCells == <<Txt("2"), Txt("3"), Txt("1"), Txt("7")>>

MaxGradRows == 2

\* the cells of the tables of graduate counts by country: the countries (one
\* missing), the male counts (missing, a number, free text), the female counts
AggCells ==
  << <<Txt("Kenya"), Txt("Uganda"), NA>>, <<NA, Txt("2"), Txt("none")>>,
     <<Txt("3"), Txt("1")>> >>

\* a country column and up to MaxGradCols count columns in any order with one
\* respondent, or a male and a female column with up to MaxGradRows respondents
GradTables ==
  LET \* the sequences of n distinct graduate headers
      GradHeaderLists(n) ==
        {h \in [1..n -> GradHeaders] : \A i \in 1..n : \A j \in 1..n : i # j => h[i] # h[j]}
      \* row k of the pool of rows of the tables by country
      AggRow(k) ==
        << AggCells[1][((k - 1) \div 6) + 1], AggCells[2][(((k - 1) \div 2) % 3) + 1],
           AggCells[3][((k - 1) % 2) + 1] >>
  IN
  UNION {
    { [cols |-> <<CountryHeader>> \o h,
       rows |-> << <<CountryCells[1]>>
                     \o [i \in 1..n |-> GradCells[((i - 1) % Len(GradCells)) + 1]] >>] :
        h \in GradHeaderLists(n) } : n \in 0..MaxGradCols }
  \cup
  UNION {
    { [cols |-> <<CountryHeader, "Placed by JSO 2023 Male", "Placed by JSO 2023 Female">>,
       rows |-> [i \in 1..n |-> AggRow(f[i])]] :
        f \in {g \in [1..n -> 1..18] : Sorted(g)} } : n \in 0..MaxGradRows }

MaxCollabRows == 3

\* a column per option: a positive, a negative, free text holding the option, missing
OneHotCells == <<NA, Txt("Yes"), Txt("No"), Txt("Peer mentoring")>>

\* one column of packed options: the same two options under three delimiters
\* and spacings, one option alone, missing
PackedCells == <<NA, Txt("A; B"), Txt("A,B"), Txt("A | B"), Txt("B")>>

OneHotHeader == "We collaborate [Mentoring]"

PackedHeader == "Ways of working together"

ExampleCells == <<Txt("Mentoring; Exchange visits"), Txt("Exchange visits"), Txt("Mentoring")>>

\* three respondents of two countries and their packed answers
ExampleTable ==
  [cols |-> <<CountryHeader, PackedHeader>>,
   rows |-> << <<CountryCells[1], ExampleCells[1]>>,
               <<CountryCells[1], ExampleCells[2]>>,
               <<CountryCells[2], ExampleCells[3]>> >>]

\* further headers of a column per option: one with the option of OneHotHeader
\* under another question, one with another option
OtherOneHotHeaders == {"Centres collaborate in [Mentoring]", "We collaborate [Exchange visits]"}

\* one respondent and two columns per option, in any order
PairTables ==
  { [cols |-> <<CountryHeader, h[1], h[2]>>, rows |-> << <<CountryCells[1], x[1], x[2]>> >>] :
      h \in {g \in [1..2 -> {OneHotHeader} \cup OtherOneHotHeaders] : g[1] # g[2]},
      x \in [1..2 -> {OneHotCells[2], OneHotCells[3]}] }

\* free text that holds the question offered when no option is found, in
\* capitals, and a text that holds all of it but its last two characters
FallbackCells ==
  <<NA, Txt("Yes"), Txt("IN WHAT WAYS DO DON BOSCO TVET CENTRES COLLABORATE?"),
    Txt("In what ways do Don Bosco TVET centres collaborating")>>

CollabTables ==
  TablesOf(OneHotHeader, OneHotCells, MaxCollabRows)
    \cup TablesOf(PackedHeader, PackedCells, MaxCollabRows)
    \cup {ExampleTable} \cup PairTables
    \cup TablesOf(AnswerHeader, FallbackCells, MaxCollabRows)

\* the cells and the headers of all these tables
AllCells ==
  Range(CountryCells) \cup Range(AnswerCells) \cup Range(GradCells)
    \cup Range(OneHotCells) \cup Range(PackedCells) \cup Range(ExampleCells)
    \cup Range(FallbackCells)

AllHeaders ==
  {CountryHeader, AnswerHeader, IdentityHeader, OneHotHeader, PackedHeader}
    \cup OtherOneHotHeaders
    \cup GradHeaders

----------------------------------------------------------------------------
(* What the scripts compute from one cell or one header is tabulated once   *)
(* over the cells and the headers of the tables.                            *)

\* Series.astype(str).str.strip().str.lower() on one cell
str_strip_lower == [x \in AllCells |-> lower_chars(strip_chars(astype_str(x)))]

\* Series.astype(str).str.lower() on one cell
str_lower == [x \in AllCells |-> lower_chars(astype_str(x))]

\* Series.astype(str).str.strip() on one cell
str_strip == [x \in AllCells |-> strip_chars(astype_str(x))]

\* pd.to_numeric[errors="coerce"] on one cell
to_numeric == [x \in AllCells |-> to_numeric_chars(x)]

exclude_keywords == {"name", "respondent", "email", "phone", "id", "contact"}

GRAD_CATEGORY_KEYWORDS ==
  [ placed |-> <<"placed by the jso", "placed by jso", "placed by the jso in">>,
    employed |-> <<"graduates employed", "number of graduates employed",
                   "employed in the following years">>,
    self_employed |-> <<"self-employed", "self employed", "were self-employed">> ]

DefaultYears == {"2024", "2023", "2022", "2021"}

\* re.findall(r"20\d{2}", s): the matches scanned left to right, none overlapping
RECURSIVE findall_years(_)
findall_years(s) ==
  IF Len(s) < 4 THEN {}
  ELSE IF /\ SubSeq(s, 1, 2) = "20" /\ IsDigit(CharAt(s, 3)) /\ IsDigit(CharAt(s, 4))
       THEN {SubSeq(s, 1, 4)} \cup findall_years(SubSeq(s, 5, Len(s)))
       ELSE findall_years(Tail(s))

\* the years found in each header
YearsOf == [c \in AllHeaders |-> findall_years(c)]

\* the texts the scripts look for in a lowered header
Needles ==
  exclude_keywords \cup {"country", "male", "female", "collaborate", "choose all"}
    \cup DefaultYears \cup UNION {findall_years(c) : c \in AllHeaders}
    \cup UNION {Range(GRAD_CATEGORY_KEYWORDS[m]) : m \in DOMAIN GRAD_CATEGORY_KEYWORDS}

\* the Python test  sub in c.lower(): for each header c, the needles that its
\* lowered text contains
in_lower == [c \in AllHeaders |-> {n \in Needles : contains_chars(lower_chars(c), n)}]

----------------------------------------------------------------------------
(* Columns *)

ColIdx(d, c) == CHOOSE j \in 1..Len(d.cols) : d.cols[j] = c

\* data[c]: the cells of column c, in row order
Column(d, c) == LET j == ColIdx(d, c) IN [i \in 1..Len(d.rows) |-> d.rows[i][j]]

\* Series.dropna()
dropna(col) == SelectSeq(col, LAMBDA x : ~IsNA(x))

\* Python's round(): n/d rounded to the nearest integer, ties to even (d > 0, n >= 0)
RoundHalfEven(n, d) ==
  LET q == n \div d
      r == n % d
  IN IF 2 * r < d THEN q
     ELSE IF 2 * r > d THEN q + 1
     ELSE IF q % 2 = 0 THEN q ELSE q + 1

----------------------------------------------------------------------------
(* Column detection, src/ai.py 58-92 and src/app.py 72-88 *)

None == "<None>"

\* [c for c in data.columns if "country" in c.lower()]
country_candidates(d) == SelectSeq(d.cols, LAMBDA c : "country" \in in_lower[c])

\* country_candidates[0] (None: there is no such column)
country_col(d) == Head(country_candidates(d) \o <<None>>)

\* any(k in c.lower() for k in exclude_keywords)
Excluded(c) == \E k \in exclude_keywords : k \in in_lower[c]

\* the slip of running the detection over every column
all_columns(d) == d.cols

\* cols_for_detection (ai.py 67) and filtered_cols (app.py 78)
cols_for_detection(d) == SelectSeq(d.cols, LAMBDA c : ~Excluded(c))

yes_tokens == {"yes", "y", "true", "1", "x", "^", "selected", "checked"}

no_tokens == {"no", "n", "false", "0"}

blank_tokens == {"", "nan", "none"}

\* ai.py: set(data[c].dropna().astype(str).str.strip().str.lower().unique())
ai_unique(d, c) == {str_strip_lower[x] : x \in Range(dropna(Column(d, c)))}

\* app.py: set(data[col].dropna().astype(str).str.lower().unique()), no trim
app_unique(d, c) == {str_lower[x] : x \in Range(dropna(Column(d, c)))}

\* pd.to_numeric[data[c]].dropna()
numeric(d, c) == dropna([i \in 1..Len(d.rows) |-> to_numeric[Column(d, c)[i]]])

\* the slip of writing .any() for .all()
between_1_5_any(series) == \E i \in 1..Len(series) : series[i][1] >= 1 /\ series[i][1] <= 5

\* Series.between(1, 5).all()
between_1_5_all(series) == \A i \in 1..Len(series) : series[i][1] >= 1 /\ series[i][1] <= 5

\* ai.py 73-83: an empty column is skipped, then the token test
ai_is_yes_no(d, c) ==
  /\ dropna(Column(d, c)) # <<>>
  /\ ai_unique(d, c) \subseteq (yes_tokens \cup no_tokens \cup blank_tokens)

\* ai.py 74-75 and 83-87: reached only by a non-empty column (an empty one is
\* skipped by continue) that is not yes/no;
\* len(numeric) >= 0.5 * len(data[c].dropna()) and numeric.between(1,5).all()
ai_is_rating(d, c) ==
  /\ dropna(Column(d, c)) # <<>>
  /\ ~ai_is_yes_no(d, c)
  /\ 2 * Len(numeric(d, c)) >= Len(dropna(Column(d, c)))
  /\ between_1_5_all(numeric(d, c))

ai_yes_no_cols(d) == SelectSeq(cols_for_detection(d), LAMBDA c : ai_is_yes_no(d, c))

ai_rating_cols(d) == SelectSeq(cols_for_detection(d), LAMBDA c : ai_is_rating(d, c))

\* app.py 82-84
app_is_yes_no(d, c) == app_unique(d, c) \subseteq {"yes", "no"}

\* app.py 85-88: len(series) > 0 and series.between(1, 5).all()
app_is_rating(d, c) ==
  /\ ~app_is_yes_no(d, c)
  /\ Len(numeric(d, c)) > 0
  /\ between_1_5_all(numeric(d, c))

app_yes_no_cols(d) == SelectSeq(cols_for_detection(d), LAMBDA c : app_is_yes_no(d, c))

app_rating_cols(d) == SelectSeq(cols_for_detection(d), LAMBDA c : app_is_rating(d, c))

\* sorted(data[country_col].dropna().unique().tolist()), as a set
countries(d) == {x[1] : x \in Range(dropna(Column(d, country_col(d))))}

\* the options of the country selectbox
country_list(d) == {"All"} \cup countries(d)

\* data.copy() if country_sel == "All" else data.loc[data[country_col] == country_sel]
filtered(d, cs) ==
  [cols |-> d.cols,
   rows |-> IF cs = "All" THEN d.rows
            ELSE SelectSeq(d.rows, LAMBDA r : r[ColIdx(d, country_col(d))] = Txt(cs))]

\* df.loc[:, c] = ... and df[c] = ...: df with every cell x of column c
\* replaced by f[x]
assign(df, c, f) ==
  [df EXCEPT !.rows = [i \in 1..Len(df.rows) |->
                         [df.rows[i] EXCEPT ![ColIdx(df, c)] = f[df.rows[i][ColIdx(df, c)]]]]]

\* the slip of working on the loaded table itself
written_through(d, df) == df

\* the loaded table after a run whose writes left its frame as df: the frame
\* is data.copy(), data.loc[...].copy() or the result of indexing with a
\* boolean mask, each a new object, so no write reaches the loaded table
loaded_after(d, df) == d

Count(col, P(_)) == Cardinality({i \in 1..Len(col) : P(col[i])})

\* round(n / total * 100, 1) in tenths of a percent
pct1(n, total) == RoundHalfEven(1000 * n, total)

----------------------------------------------------------------------------
(* State *)

VARIABLES
  data,          \* the survey table returned by load_data(): [cols, rows]
  script,        \* the script whose run produced the rest: "none", "ai", "app"
  q_type,        \* sidebar radio: "yesno", "rating", "collab", "graduate"
  country_sel,   \* sidebar country selectbox
  question_sel,  \* sidebar question selectbox (None when it offers nothing)
  year_sel,      \* Graduate Analysis: sidebar year selectbox
  grad_choice,   \* Graduate Analysis: sidebar metric selectbox
  show_trend,    \* Graduate Analysis: sidebar checkbox
  yes_no_cols,   \* detected by the run
  rating_cols,   \* detected by the run
  kpi,           \* what the analysis branch computed (Blank: nothing)
  messages,      \* st.warning / st.info / st.error calls of the run
  ai_mode,       \* sidebar checkbox "Activate Stephen AI Mode" (ai.py)
  prompt_input,  \* AI mode: sidebar text area
  use_dataset,   \* AI mode: sidebar checkbox
  analyze_btn,   \* AI mode: sidebar button
  response,      \* AI mode: what requests.post did (NoResponse: not called)
  insight,       \* AI mode: what ask_gemini did (NoInsight: not called)
  include_charts,       \* sidebar checkbox "Include charts in PDF" (ai.py)
  export_pdf_btn,       \* sidebar button "Export report as PDF" (ai.py)
  charts_for_export,    \* the charts the run recorded, by kind
  summaries_for_export, \* the summary cards the run recorded, by title
  pdf            \* what the export trigger did (NoPdf: nothing)

vars == <<data, script, q_type, country_sel, question_sel, year_sel, grad_choice,
          show_trend, yes_no_cols, rating_cols, kpi, messages,
          ai_mode, prompt_input, use_dataset, analyze_btn, response, insight,
          include_charts, export_pdf_btn, charts_for_export, summaries_for_export, pdf>>

\* a JSON value is a pair of its type and its content: <<"null">>, <<"str", s>>,
\* <<"num", n>>, <<"list", sequence of values>>, <<"dict", set of <<key, value>>>>;
\* <<"invalid">> stands for a body that is no JSON text
NoResponse == [kind |-> "none", status_code |-> 0, text |-> "", json |-> <<"invalid">>]

NoInsight == [called |-> FALSE, raised |-> FALSE, value |-> <<"null">>]

\* no analysis performed
Blank ==
  [done |-> "none", crashed |-> FALSE,
   total |-> 0, yes_count |-> 0, no_count |-> 0, other_count |-> 0,
   yes_pct |-> 0, no_pct |-> 0, other_pct |-> 0,
   avg |-> 0, avg_nan |-> FALSE, median |-> 0, pct_4_5 |-> 0,
   male_col |-> None, female_col |-> None,
   total_male |-> 0, total_female |-> 0, total_all |-> 0,
   male_pct |-> 0, female_pct |-> 0, grouped |-> <<>>, trend_rows |-> <<>>,
   mapping |-> None, col |-> None, selected |-> {}]

\* the controls of a run that is not a Graduate Analysis
SetControls(s, qt, cs, qs) ==
  /\ script' = s
  /\ q_type' = qt
  /\ country_sel' = cs
  /\ question_sel' = qs
  /\ year_sel' = None
  /\ grad_choice' = None
  /\ show_trend' = FALSE
  \* ai.py 109 and 169: the AI panel is not rendered with the checkbox off
  /\ ai_mode' = FALSE
  /\ prompt_input' = ""
  /\ use_dataset' = TRUE
  /\ analyze_btn' = FALSE
  /\ response' = NoResponse
  /\ insight' = NoInsight

\* the controls of a Graduate Analysis run: no question selectbox is shown
SetGradControls(cs, ys, gc, st) ==
  /\ script' = "ai"
  /\ q_type' = "graduate"
  /\ country_sel' = cs
  /\ question_sel' = None
  /\ year_sel' = ys
  /\ grad_choice' = gc
  /\ show_trend' = st
  \* ai.py 109 and 169: the AI panel is not rendered with the checkbox off
  /\ ai_mode' = FALSE
  /\ prompt_input' = ""
  /\ use_dataset' = TRUE
  /\ analyze_btn' = FALSE
  /\ response' = NoResponse
  /\ insight' = NoInsight

\* the export trigger was not reached or the button was not pressed
NoPdf == [state |-> "none", summaries |-> <<>>, charts |-> <<>>]

\* the slip of rendering the dashboard whatever the AI mode checkbox says
dashboard_always(mode) == TRUE

\* ai.py 169 and 250: the dashboard (analysis branches, charts, summary cards
\* and export trigger) is the else branch of  if ai_mode
dashboard_runs(mode) == ~mode

\* ai.py 295, 344, 392, 467, 500 and summary_card (150-159): the charts and
\* the summary cards a run of ai.py that computed k records for export
recorded(k) ==
  IF k.crashed THEN [charts |-> <<>>, summaries |-> <<>>]
  ELSE IF k.done = "yesno"
  THEN [charts |-> <<"bar">>, summaries |-> <<"Summary & Recommendation">>]
  ELSE IF k.done = "rating"
  THEN [charts |-> <<"donut">>, summaries |-> <<"Summary & Recommendation">>]
  ELSE IF k.done = "collab" /\ k.selected # {}
  THEN [charts |-> <<"bar">>, summaries |-> <<"Collaboration Summary">>]
  ELSE IF k.done = "graduate"
  THEN [charts |-> (IF k.total_all > 0 THEN <<"pie">> ELSE <<>>)
                     \o (IF k.trend_rows # <<>> THEN <<"line">> ELSE <<>>),
        summaries |-> IF DOMAIN k.grouped # {} THEN <<"Graduate Summary">> ELSE <<>>]
  ELSE [charts |-> <<>>, summaries |-> <<>>]

\* ai.py 146-147 and 654-667: the export controls and the export trigger of a
\* run that computed k, dashboard telling whether the run renders the
\* dashboard; a run that ended in an error does not reach the trigger, and
\* with no summary recorded the trigger only warns
SetExport(dashboard, k, btn, inc) ==
  LET r == IF dashboard THEN recorded(k) ELSE recorded(Blank)
  IN /\ include_charts' = inc
     /\ export_pdf_btn' = btn
     /\ charts_for_export' = r.charts
     /\ summaries_for_export' = r.summaries
     /\ pdf' = IF ~(dashboard /\ btn) \/ k.crashed THEN NoPdf
               ELSE IF r.summaries = <<>> THEN [NoPdf EXCEPT !.state = "nothing to export"]
               ELSE [state |-> "built", summaries |-> r.summaries,
                     charts |-> IF inc THEN r.charts ELSE <<>>]

SetDetected(yn, rt) ==
  /\ yes_no_cols' = yn
  /\ rating_cols' = rt

SetResult(k, m) ==
  /\ kpi' = k
  /\ messages' = m

\* the options of a selectbox over a list: an empty list offers (and returns) None
Options(list, placeholder) ==
  IF list # <<>> THEN Range(list)
  ELSE IF placeholder = None THEN {None} ELSE {placeholder}

----------------------------------------------------------------------------
(* Yes/No analysis *)

\* the slip of leaving the tokens "1", "x" and the tick out of the aggregator
yes_values_words == {"yes", "y", "true", "selected", "checked"}

yes_values == {"yes", "y", "true", "1", "x", "^", "selected", "checked"}

\* the slip of listing "1" among the negative values too
no_values_overlapping == {"no", "n", "false", "0", "1"}

no_values == {"no", "n", "false", "0"}

\* Series.notna() on one element
notna(x) == ~IsNA(x)

\* ai.py 270-273: the three percentages, each guarded by total > 0
ai_yes_no_kpi(total, yes_count, no_count, other_count) ==
  [Blank EXCEPT !.done = "yesno", !.total = total,
     !.yes_count = yes_count, !.no_count = no_count, !.other_count = other_count,
     !.yes_pct = IF total > 0 THEN pct1(yes_count, total) ELSE 0,
     !.no_pct = IF total > 0 THEN pct1(no_count, total) ELSE 0,
     !.other_pct = IF total > 0 THEN pct1(other_count, total) ELSE 0]

\* ai.py 260-273: s = df[question_sel].astype(str).str.strip().str.lower() is a
\* series of texts none of which is missing; then the masks and their sums
ai_yes_no(d, cs, qs) ==
  LET col == Column(filtered(d, cs), qs)
      s == [i \in 1..Len(col) |-> Txt(str_strip_lower[col[i]])]
  IN ai_yes_no_kpi(Count(s, notna),
                   Count(s, LAMBDA x : x[1] \in yes_values),
                   Count(s, LAMBDA x : x[1] \in no_values),
                   Count(s, LAMBDA x : notna(x) /\ ~(x[1] \in yes_values \/ x[1] \in no_values)))

\* app.py 177-178: yes_pct guarded by total > 0, no_pct its complement
app_yes_no_kpi(total, yes_count, no_count) ==
  LET yes_pct == IF total > 0 THEN pct1(yes_count, total) ELSE 0
  IN [Blank EXCEPT !.done = "yesno", !.total = total,
        !.yes_count = yes_count, !.no_count = no_count,
        !.yes_pct = yes_pct, !.no_pct = 1000 - yes_pct]

\* app.py 172-178: no "other" figure
app_yes_no(d, cs, qs) ==
  LET col == Column(filtered(d, cs), qs)
  IN app_yes_no_kpi(Count(col, notna),
                    Count(col, LAMBDA x : str_lower[x] = "yes"),
                    Count(col, LAMBDA x : str_lower[x] = "no"))

\* ai.py run with q_type "Yes/No" (AI mode off), 254-273
AiYesNo ==
  LET yn == ai_yes_no_cols(data)
  IN \E cs \in country_list(data) :
     \E qs \in Options(yn, "(no yes/no questions found)") :
       /\ SetControls("ai", "yesno", cs, qs)
       /\ SetDetected(yn, ai_rating_cols(data))
       /\ IF yn = <<>>
          THEN SetResult(Blank, {<<"warning", "No yes/no questions detected.">>})
          ELSE IF qs \notin Range(yn)
          THEN SetResult(Blank, {<<"warning", "Pick a valid Yes/No question.">>})
          ELSE SetResult(ai_yes_no(data, cs, qs), {})
       \* the export controls are left as they come up: the button not pressed
       /\ SetExport(dashboard_runs(FALSE), kpi', FALSE, TRUE)
       \* 260: the frame is made and only read
       /\ data' = loaded_after(data, IF qs \in Range(yn) THEN filtered(data, cs) ELSE data)

\* app.py run with q_type "Yes/No", 158-178: with no yes/no column the
\* selectbox returns None and df[None] raises KeyError
AppYesNo ==
  \E cs \in country_list(data) :
  \E qs \in Options(app_yes_no_cols(data), None) :
    /\ SetControls("app", "yesno", cs, qs)
    /\ SetDetected(app_yes_no_cols(data), app_rating_cols(data))
    /\ IF qs = None
       THEN SetResult([Blank EXCEPT !.crashed = TRUE], {})
       ELSE SetResult(app_yes_no(data, cs, qs), {})
    \* app.py keeps no lists for export and has no export trigger
    /\ SetExport(FALSE, kpi', FALSE, TRUE)
    \* 172: the frame is made and only read
    /\ data' = loaded_after(data, filtered(data, cs))

----------------------------------------------------------------------------
(* Rating analysis *)

RECURSIVE SumSeq(_)
SumSeq(q) == IF q = <<>> THEN 0 ELSE Head(q) + SumSeq(Tail(q))

\* the values of a series of <<n>> cells
Values(series) == [i \in 1..Len(series) |-> series[i][1]]

\* the k-th smallest of the values
Kth(vals, k) ==
  CHOOSE v \in Range(vals) :
    /\ Count(vals, LAMBDA x : x < v) < k
    /\ Count(vals, LAMBDA x : x <= v) >= k

\* Series.median() in hundredths (a non-empty series)
median100(vals) ==
  IF Len(vals) % 2 = 1 THEN 100 * Kth(vals, (Len(vals) + 1) \div 2)
  ELSE 50 * (Kth(vals, Len(vals) \div 2) + Kth(vals, Len(vals) \div 2 + 1))

\* ai.py 323-329 over the valid ratings
ai_rating_kpi(vals) ==
  IF Len(vals) = 0 THEN Blank
  ELSE [Blank EXCEPT !.done = "rating", !.total = Len(vals),
          !.avg = RoundHalfEven(100 * SumSeq(vals), Len(vals)),
          !.median = median100(vals),
          !.pct_4_5 = pct1(Count(vals, LAMBDA v : v >= 4), Len(vals))]

\* ai.py 320-329
ai_rating(d, cs, qs) == ai_rating_kpi(Values(numeric(filtered(d, cs), qs)))

\* app.py 225-227 over the valid ratings: the mean of no ratings is NaN
app_rating_kpi(vals) ==
  [Blank EXCEPT !.done = "rating", !.total = Len(vals),
     !.avg = IF Len(vals) > 0 THEN RoundHalfEven(100 * SumSeq(vals), Len(vals)) ELSE 0,
     !.avg_nan = (Len(vals) = 0),
     !.pct_4_5 = IF Len(vals) > 0 THEN pct1(Count(vals, LAMBDA v : v >= 4), Len(vals)) ELSE 0]

\* app.py 221-227
app_rating(d, cs, qs) == app_rating_kpi(Values(numeric(filtered(d, cs), qs)))

\* ai.py run with q_type "Rating (1-5)" (AI mode off), 314-329; line 325 tells
\* that there is no numeric rating
AiRating ==
  LET rt == ai_rating_cols(data)
  IN \E cs \in country_list(data) :
     \E qs \in Options(rt, "(no rating questions found)") :
       /\ SetControls("ai", "rating", cs, qs)
       /\ SetDetected(ai_yes_no_cols(data), rt)
       /\ IF rt = <<>>
          THEN SetResult(Blank, {<<"warning", "No rating (1-5) questions detected.">>})
          ELSE IF qs \notin Range(rt)
          THEN SetResult(Blank, {<<"warning", "Pick a valid rating question.">>})
          ELSE LET k == ai_rating(data, cs, qs)
               IN SetResult(k, IF k.done = "none"
                               THEN {<<"info", "No numeric ratings available for this question/country.">>}
                               ELSE {})
       \* the export controls are left as they come up: the button not pressed
       /\ SetExport(dashboard_runs(FALSE), kpi', FALSE, TRUE)
       \* 321: df.loc[:, question_sel] = pd.to_numeric(df[question_sel], errors="coerce"),
       \* a number written as <<n, "number">>
       /\ data' = loaded_after(data,
                     IF qs \in Range(rt)
                     THEN assign(filtered(data, cs), qs, [x \in AllCells |-> IF to_numeric[x] = <<>> THEN NA ELSE <<to_numeric[x][1], "number">>])
                     ELSE data)

\* app.py run with q_type "Rating (1-5)", 160-227: with no rating column the
\* selectbox returns None and df[None] raises KeyError
AppRating ==
  \E cs \in country_list(data) :
  \E qs \in Options(app_rating_cols(data), None) :
    /\ SetControls("app", "rating", cs, qs)
    /\ SetDetected(app_yes_no_cols(data), app_rating_cols(data))
    /\ IF qs = None
       THEN SetResult([Blank EXCEPT !.crashed = TRUE], {})
       ELSE SetResult(app_rating(data, cs, qs), {})
    \* app.py keeps no lists for export and has no export trigger
    /\ SetExport(FALSE, kpi', FALSE, TRUE)
    \* 222: df[question_sel] = pd.to_numeric(df[question_sel], errors='coerce')
    /\ data' = loaded_after(data,
                  IF qs # None
                  THEN assign(filtered(data, cs), qs, [x \in AllCells |-> IF to_numeric[x] = <<>> THEN NA ELSE <<to_numeric[x][1], "number">>])
                  ELSE filtered(data, cs))

----------------------------------------------------------------------------
(* Graduate Analysis, src/ai.py 94-103 and 412-521 *)

\* the years of a set, latest first
RECURSIVE SortedDesc(_)
SortedDesc(S) ==
  IF S = {} THEN <<>>
  ELSE LET y == CHOOSE x \in S : \A z \in S : DigitsVal(z, 0) <= DigitsVal(x, 0)
       IN <<y>> \o SortedDesc(S \ {y})

\* ai.py 95-97: the years found in the headers, latest first, or the default list
years_detected(d) ==
  LET found == UNION {YearsOf[c] : c \in Range(d.cols)}
  IN IF found = {} THEN <<"2024", "2023", "2022", "2021">> ELSE SortedDesc(found)

\* year in lower and gender in lower, lower the lowered header c
has_year_gender(c, year, gender) == year \in in_lower[c] /\ gender \in in_lower[c]

\* ai.py 420 and 422 (479 and 481), the test of the keyword loop:
\* year in lower and gender in lower and any(k in lower for k in keywords)
keyword_match(c, year, keywords, gender) ==
  /\ has_year_gender(c, year, gender)
  /\ \E i \in 1..Len(keywords) : keywords[i] \in in_lower[c]

\* ai.py 477-482, the trend's keyword loop: every match overwrites the column
RECURSIVE keyword_pass_last(_, _, _, _, _)
keyword_pass_last(hdrs, year, keywords, m, f) ==
  IF hdrs = <<>> THEN <<m, f>>
  ELSE keyword_pass_last(Tail(hdrs), year, keywords,
         IF keyword_match(Head(hdrs), year, keywords, "male") THEN Head(hdrs) ELSE m,
         IF keyword_match(Head(hdrs), year, keywords, "female") THEN Head(hdrs) ELSE f)

\* ai.py 418-423: the loop over the headers in sheet order; a column once found
\* is kept
RECURSIVE keyword_pass(_, _, _, _, _)
keyword_pass(hdrs, year, keywords, m, f) ==
  IF hdrs = <<>> THEN <<m, f>>
  ELSE keyword_pass(Tail(hdrs), year, keywords,
         IF keyword_match(Head(hdrs), year, keywords, "male") /\ m = None
         THEN Head(hdrs) ELSE m,
         IF keyword_match(Head(hdrs), year, keywords, "female") /\ f = None
         THEN Head(hdrs) ELSE f)

\* the slip of leaving out "and male_col is None": every match overwrites
RECURSIVE fallback_pass_overwrite(_, _, _, _)
fallback_pass_overwrite(hdrs, year, m, f) ==
  IF hdrs = <<>> THEN <<m, f>>
  ELSE fallback_pass_overwrite(Tail(hdrs), year,
         IF has_year_gender(Head(hdrs), year, "male") THEN Head(hdrs) ELSE m,
         IF has_year_gender(Head(hdrs), year, "female") THEN Head(hdrs) ELSE f)

\* ai.py 427-431 (and 485-489): only a column still None is assigned
RECURSIVE fallback_pass(_, _, _, _)
fallback_pass(hdrs, year, m, f) ==
  IF hdrs = <<>> THEN <<m, f>>
  ELSE fallback_pass(Tail(hdrs), year,
         IF has_year_gender(Head(hdrs), year, "male") /\ m = None THEN Head(hdrs) ELSE m,
         IF has_year_gender(Head(hdrs), year, "female") /\ f = None THEN Head(hdrs) ELSE f)

\* ai.py 425-431 (and 484-489): the fallback pass runs when the pair p of the
\* keyword pass lacks a column
fallback_if_missing(hdrs, year, p) ==
  IF p[1] = None \/ p[2] = None THEN fallback_pass(hdrs, year, p[1], p[2]) ELSE p

\* ai.py 414-431: <<male_col, female_col>>
resolve(d, year, metric) ==
  fallback_if_missing(d.cols, year,
    keyword_pass(d.cols, year, GRAD_CATEGORY_KEYWORDS[metric], None, None))

\* ai.py 476-489: the trend's own search, whose keyword loop keeps the last match
trend_resolve(d, year, metric) ==
  fallback_if_missing(d.cols, year,
    keyword_pass_last(d.cols, year, GRAD_CATEGORY_KEYWORDS[metric], None, None))

\* pd.to_numeric(col, errors="coerce").fillna(0) on one cell: the number, 0 for NaN
to_int(x) == Head(to_numeric[x] \o <<0>>)

\* the sum of column c over rows
SumCol(d, rows, c) ==
  LET j == ColIdx(d, c) IN SumSeq([i \in 1..Len(rows) |-> to_int(rows[i][j])])

\* the slip of summing the trend over the rows of the selected country
trend_over_selection(d, cs) == filtered(d, cs)

\* ai.py 491-492: the trend sums data[m_col] and data[f_col], columns of the
\* loaded table and not of the filtered frame df
trend_source(d, cs) == d

\* ai.py 471-493: a row for every detected year for which both columns are
\* found (line 490), the sums taken over all rows of d
trend_rows_of(d, metric) ==
  LET found == SelectSeq(years_detected(d),
                 LAMBDA y : trend_resolve(d, y, metric)[1] # None
                            /\ trend_resolve(d, y, metric)[2] # None)
      \* 493
      trend_row(y, m_sum, f_sum) ==
        [Year |-> y, Male |-> m_sum, Female |-> f_sum, Total |-> m_sum + f_sum]
  IN [i \in 1..Len(found) |->
        trend_row(found[i],
                  SumCol(d, d.rows, trend_resolve(d, found[i], metric)[1]),
                  SumCol(d, d.rows, trend_resolve(d, found[i], metric)[2]))]

\* the cells of the country column of df, in row order
country_cells(df) == Column(df, country_col(df))

\* ai.py 442: df.groupby(country_col)[[male_col, female_col]].sum(); groupby
\* drops the rows whose country is missing
grouped_sums(df, male_col, female_col) ==
  [c \in countries(df) |->
     LET rows == SelectSeq(df.rows, LAMBDA r : r[ColIdx(df, country_col(df))] = Txt(c))
     IN <<SumCol(df, rows, male_col), SumCol(df, rows, female_col)>>]

\* the sum of component j of the pairs of grouped over the keys S
RECURSIVE Total(_, _, _)
Total(grouped, S, j) ==
  IF S = {} THEN 0
  ELSE LET c == CHOOSE x \in S : TRUE IN grouped[c][j] + Total(grouped, S \ {c}, j)

\* ai.py 445-449
graduate_kpi(male_col, female_col, grouped, total_male, total_female, trend_rows) ==
  [Blank EXCEPT !.done = "graduate",
     !.male_col = male_col, !.female_col = female_col,
     !.grouped = grouped,
     !.total_male = total_male, !.total_female = total_female,
     !.total_all = total_male + total_female,
     !.male_pct = IF total_male + total_female # 0
                  THEN pct1(total_male, total_male + total_female) ELSE 0,
     !.female_pct = IF total_male + total_female # 0
                    THEN pct1(total_female, total_male + total_female) ELSE 0,
     !.trend_rows = trend_rows]

\* ai.py 436-449 and 471-495.  With male_col = female_col the selection
\* [[male_col, female_col]] holds the column twice and the assignment of
\* grouped["Total"] raises, and df[None] raises KeyError
graduate(d, cs, metric, male_col, female_col, st) ==
  IF male_col = female_col \/ male_col = None \/ female_col = None
  THEN [Blank EXCEPT !.crashed = TRUE, !.male_col = male_col, !.female_col = female_col]
  ELSE LET grouped == grouped_sums(filtered(d, cs), male_col, female_col)
       IN graduate_kpi(male_col, female_col, grouped,
                       Total(grouped, DOMAIN grouped, 1), Total(grouped, DOMAIN grouped, 2),
                       IF st THEN trend_rows_of(trend_source(d, cs), metric) ELSE <<>>)

\* the slip of writing "and" for "or"
not_found_both(male_col, female_col) == male_col = None /\ female_col = None

\* ai.py 433: not male_col or not female_col
not_found(male_col, female_col) == male_col = None \/ female_col = None

\* ai.py run with q_type "Graduate Analysis" (AI mode off), 412-521
AiGraduate ==
  \E cs \in country_list(data) :
  \E ys \in Range(years_detected(data)) :
  \E gc \in DOMAIN GRAD_CATEGORY_KEYWORDS :
  \E st \in BOOLEAN :
    /\ SetGradControls(cs, ys, gc, st)
    /\ SetDetected(ai_yes_no_cols(data), ai_rating_cols(data))
    /\ LET p == resolve(data, ys, gc)
       IN IF not_found(p[1], p[2])
          THEN SetResult([Blank EXCEPT !.male_col = p[1], !.female_col = p[2]],
                         {<<"warning", "Could not find male/female columns", gc, ys>>})
          ELSE SetResult(graduate(data, cs, gc, p[1], p[2], st), {})
    \* the export controls are left as they come up: the button not pressed
    /\ SetExport(dashboard_runs(FALSE), kpi', FALSE, TRUE)
    \* 439-440: df.loc[:, male_col] and df.loc[:, female_col] are set to
    \* pd.to_numeric(...).fillna(0).astype(int)
    /\ data' = loaded_after(data,
                  LET p == resolve(data, ys, gc)
                      zeros == [x \in AllCells |-> <<to_int(x), "number">>]
                      male == assign(filtered(data, cs), p[1], zeros)
                  IN IF not_found(p[1], p[2]) THEN data
                     ELSE IF p[1] = p[2] THEN male
                     ELSE assign(male, p[2], zeros))

----------------------------------------------------------------------------
(* Collaboration analysis *)

\* col.split("[")[-1]: the part of s after its last "[", all of s without one
RECURSIVE after_last_bracket(_, _)
after_last_bracket(s, acc) ==
  IF s = "" THEN acc
  ELSE IF Head(s) = "[" THEN after_last_bracket(Tail(s), "")
       ELSE after_last_bracket(Tail(s), acc \o Head(s))

\* str.replace("]", "")
RECURSIVE drop_closing(_)
drop_closing(s) ==
  IF s = "" THEN ""
  ELSE (IF Head(s) = "]" THEN "" ELSE Head(s)) \o drop_closing(Tail(s))

\* ai.py 91: col.split("[")[-1].replace("]", "").strip()
ai_label_chars(col) == strip_chars(drop_closing(after_last_bracket(col, "")))

\* app.py 115-116: group 1 of the leftmost match of \[([^\]]+)\] in col, else
\* col, trimmed
app_label_chars(col) ==
  LET n == Len(col)
      opens == {i \in 1..n : /\ CharAt(col, i) = "["
                             /\ i + 1 <= n
                             /\ CharAt(col, i + 1) # "]"
                             /\ \E k \in (i + 2)..n : CharAt(col, k) = "]"}
  IN IF opens = {} THEN strip_chars(col)
     ELSE LET i == CHOOSE x \in opens : \A y \in opens : x <= y
              k == CHOOSE x \in (i + 2)..n :
                     CharAt(col, x) = "]" /\ \A y \in (i + 2)..(x - 1) : CharAt(col, y) # "]"
          IN strip_chars(SubSeq(col, i + 1, k - 1))

ai_label == [c \in AllHeaders |-> ai_label_chars(c)]

app_label == [c \in AllHeaders |-> app_label_chars(c)]

\* app.py 99: sep_pattern = re.compile(r"[;,/|]")
sep_chars == {";", ",", "/", "|"}

\* s cut at every character of seps; cur is the part read so far
RECURSIVE split_on(_, _, _)
split_on(s, seps, cur) ==
  IF s = "" THEN <<cur>>
  ELSE IF Head(s) \in seps THEN <<cur>> \o split_on(Tail(s), seps, "")
       ELSE split_on(Tail(s), seps, cur \o Head(s))

\* the slip of cutting at ";" only
re_split_semicolon(s) == split_on(s, {";"}, "")

\* re.split(r"[;,/|]", s) and Series.str.split(sep_pattern)
re_split(s) == split_on(s, sep_chars, "")

\* app.py 102-103: the cells that, as text, hold a separator
SepCells == {x \in AllCells : \E i \in 1..Len(astype_str(x)) : CharAt(astype_str(x), i) \in sep_chars}

\* the parts of a cell, split, trimmed and lowercased, an empty part included
tokens(x) == {lower_chars(strip_chars(q)) : q \in Range(re_split(astype_str(x)))}

\* app.py 297-298: [p.strip().lower() for p in parts if p.strip()]
parts == [x \in AllCells |-> tokens(x) \ {""}]

\* app.py 125-138: the options of a cell as pairs <<label_display, lab>>,
\* lab the trimmed, lowercased part (an empty part included) and
\* label_display its title() form
cell_options == [x \in AllCells |-> {<<title(t), t>> : t \in tokens(x)}]

\* the slip of using the country-filtered frame
collab_frame_filtered(d, cs) == filtered(d, cs)

\* ai.py 374 and app.py 273:  df = data.copy(), whatever the country filter
collab_frame(d, cs) == d

\* ai.py 90
ai_collab_cols(d) ==
  SelectSeq(d.cols, LAMBDA c : "collaborate" \in in_lower[c] /\ contains_chars(c, "["))

\* ai.py 91
ai_collab_labels(d) == [i \in 1..Len(ai_collab_cols(d)) |-> ai_label[ai_collab_cols(d)[i]]]

\* ai.py 92 and 370: dict(zip(collab_labels, collab_cols)).get(label), a later
\* column replacing an earlier one with the same label
ai_collab_map(d, label) ==
  LET cc == ai_collab_cols(d)
  IN IF \A i \in 1..Len(cc) : ai_label[cc[i]] # label THEN None
     ELSE cc[CHOOSE i \in 1..Len(cc) :
               ai_label[cc[i]] = label /\ \A j \in (i + 1)..Len(cc) : ai_label[cc[j]] # label]

positives == {"yes", "y", "true", "1", "x", "selected", "checked", "^", "~"}

\* groupby(country_col).size() of the rows sel, key[i] the country of row i
\* and a row with no key left out; the order of the chart's bars is not modelled
group_sizes(sel, key) ==
  [c \in {key[i] : i \in {j \in sel : key[j] # None}} |->
     Cardinality({i \in sel : key[i] = c})]

RECURSIVE SumOver(_, _)
SumOver(f, S) ==
  IF S = {} THEN 0 ELSE LET c == CHOOSE x \in S : TRUE IN f[c] + SumOver(f, S \ {c})

\* what a collaboration run shows: the rows counted, their counts by country
\* and the sum of the counts
collab_kpi(kind, col, sel, grouped) ==
  [Blank EXCEPT !.done = "collab", !.mapping = kind, !.col = col, !.selected = sel,
     !.grouped = grouped, !.total = SumOver(grouped, DOMAIN grouped)]

\* ai.py 375-381 over the column's cells: the rows whose trimmed, lowercased
\* value is a positive or the label; the search for the label inside the value
\* (a label is taken to hold no regular-expression operator) only when the
\* first search found no row
ai_selected(col, target) ==
  LET first == {i \in 1..Len(col) : str_strip_lower[col[i]] \in positives \cup {target}}
  IN IF first # {} THEN first
     ELSE {i \in 1..Len(col) : contains_chars(str_strip_lower[col[i]], target)}

\* ai.py 370-386
ai_collab(d, cs, qs) ==
  LET df == collab_frame(d, cs)
      col == ai_collab_map(d, qs)
      sel == ai_selected(Column(df, col), lower_chars(qs))
      \* 386: the group key of each row; groupby drops a missing country
      ai_keys(f) ==
        [i \in 1..Len(f.rows) |->
           IF IsNA(country_cells(f)[i]) THEN None ELSE country_cells(f)[i][1]]
  IN collab_kpi("str", col, sel, group_sizes(sel, ai_keys(df)))

\* the messages of a collaboration run that computed k
SetCollabResult(k, info, warning, qs) ==
  SetResult(k, {<<"info", info>>}
                 \cup IF k.selected = {} THEN {<<"warning", warning, qs>>} ELSE {})

\* ai.py run with q_type "Collaboration (Multi-Select)" (AI mode off), 113-116,
\* 126-133 and 363-409: the country selectbox is not shown
AiCollab ==
  LET labels == ai_collab_labels(data)
  IN \E qs \in Options(labels, "(no collaboration columns found)") :
     \E btn \in BOOLEAN : \E inc \in BOOLEAN :
       /\ SetControls("ai", "collab", "All", qs)
       /\ SetDetected(ai_yes_no_cols(data), ai_rating_cols(data))
       /\ IF labels = <<>>
          THEN SetResult(Blank, {<<"warning", "No collaboration multi-select columns detected">>})
          ELSE IF qs \notin Range(labels)
          THEN SetResult(Blank, {<<"warning", "Choose a collaboration option.">>})
          ELSE SetCollabResult(ai_collab(data, "All", qs),
                               "Collaboration analysis is shown network-wide",
                               "No respondents selected", qs)
       /\ SetExport(dashboard_runs(FALSE), kpi', btn, inc)
       \* 374-375: df.loc[:, col] = df[col].astype(str).str.strip().str.lower()
       /\ data' = loaded_after(data,
                     IF qs \in Range(labels)
                     THEN assign(data, ai_collab_map(data, qs),
                                 [x \in AllCells |-> Txt(str_strip_lower[x])])
                     ELSE data)

\* app.py 102-103: a cell of the column holds a separator (the tables are
\* shorter than the sample of the first rows the script looks at)
is_multi(d, c) == \E x \in Range(dropna(Column(d, c))) : x \in SepCells

\* app.py 101-105
app_collab_cols_multi(d) == SelectSeq(d.cols, LAMBDA c : is_multi(d, c))

\* app.py 107
is_per_option(c) ==
  \/ "collaborate" \in in_lower[c] /\ contains_chars(c, "[")
  \/ "collaborate" \in in_lower[c] /\ "choose all" \in in_lower[c]

\* app.py 107-108
app_collab_cols_yesno(d) == SelectSeq(d.cols, is_per_option)

\* app.py 123-138: the options found in a packed column, as pairs
\* <<label_display, lab>> (the tables hold fewer distinct options than the
\* number of labels the script keeps)
app_options(d, c) == UNION {cell_options[x] : x \in Range(dropna(Column(d, c)))}

\* app.py 141: collab_labels_yesno + collab_labels_multi, as a set
app_collab_labels(d) ==
  {app_label[c] : c \in Range(app_collab_cols_yesno(d))}
    \cup {o[1] : o \in UNION {app_options(d, c) : c \in Range(app_collab_cols_multi(d))}}

\* app.py 113-118, 135-138, 142-144 and 270: collab_map.get(qs).  multi holds
\* the entries <<j, <<label_display, lab>>>> of collab_map_multi for label qs,
\* j the place of the packed column, and yesno the places of the per-option
\* columns whose label is qs; the packed columns are entered after the
\* per-option columns and a later entry replaces an earlier one
app_mapping(d, qs) ==
  LET multi == {e \in UNION {{<<j, o>> : o \in app_options(d, d.cols[j])} :
                               j \in {k \in 1..Len(d.cols) : is_multi(d, d.cols[k])}} :
                  e[2][1] = qs}
      yesno == {j \in 1..Len(d.cols) : is_per_option(d.cols[j]) /\ app_label[d.cols[j]] = qs}
  IN IF multi # {}
     THEN LET e == CHOOSE x \in multi : \A y \in multi : y[1] <= x[1]
          IN [kind |-> "multi", col |-> d.cols[e[1]], option |-> e[2][2]]
     ELSE IF yesno # {}
     THEN [kind |-> "str", col |-> d.cols[CHOOSE x \in yesno : \A y \in yesno : y <= x],
           option |-> None]
     ELSE [kind |-> None, col |-> None, option |-> None]

\* app.py 164: the question offered when no collaboration label is found
default_question == "In what ways do Don Bosco TVET centres collaborate?"

\* app.py 279-280: the question, lowercased, is searched as a regular
\* expression, in which the closing "e?" stands for an optional "e"
default_pattern == "in what ways do don bosco tvet centres collaborat"

\* app.py 294-299
row_has_option(val, option_lower) ==
  IF IsNA(val) THEN FALSE ELSE option_lower \in parts[val]

\* app.py 277-300: the mask of the rows that selected the option
app_mask(df, mapping) ==
  IF mapping.kind = None
  THEN {i \in 1..Len(df.rows) : \E j \in 1..Len(df.cols) :
          contains_chars(str_lower[df.rows[i][j]], default_pattern)}
  ELSE IF mapping.kind = "str"
  THEN {i \in 1..Len(df.rows) : str_strip_lower[Column(df, mapping.col)[i]] \in positives}
  ELSE {i \in 1..Len(df.rows) : row_has_option(Column(df, mapping.col)[i], mapping.option)}

\* app.py 270-303
app_collab(d, cs, qs) ==
  LET df == collab_frame(d, cs)
      mapping == app_mapping(d, qs)
      mask == app_mask(df, mapping)
      \* 274: df[country_col].astype(str).str.strip()
      app_keys(f) == [i \in 1..Len(f.rows) |-> str_strip[country_cells(f)[i]]]
  IN collab_kpi(mapping.kind, mapping.col, mask, group_sizes(mask, app_keys(df)))

\* app.py run with q_type "Collaboration (Multi-Select)", 149-166 and 265-305
AppCollab ==
  LET labels == app_collab_labels(data)
  IN \E cs \in country_list(data) :
     \E qs \in (IF labels # {} THEN labels ELSE {default_question}) :
       /\ SetControls("app", "collab", cs, qs)
       /\ SetDetected(app_yes_no_cols(data), app_rating_cols(data))
       /\ SetCollabResult(app_collab(data, cs, qs),
                          "Country filter is ignored for Collaboration analysis",
                          "No respondents in the entire dataset selected", qs)
       \* app.py keeps no lists for export and has no export trigger
       /\ SetExport(FALSE, kpi', FALSE, TRUE)
       \* 273-274: df[country_col] = df[country_col].astype(str).str.strip()
       /\ data' = loaded_after(data, assign(data, country_col(data),
                                            [x \in AllCells |-> Txt(str_strip[x])]))

----------------------------------------------------------------------------
(* Assistant (ai.py, AI mode) *)

\* json.dumps(v) with the default separators; the order of the keys of an
\* object with several keys is not modelled, numbers have one digit
RECURSIVE json_dumps(_)
json_dumps(v) ==
  LET RECURSIVE items(_)
      items(q) == IF q = <<>> THEN ""
                  ELSE json_dumps(Head(q)) \o (IF Tail(q) = <<>> THEN "" ELSE ", ")
                         \o items(Tail(q))
      RECURSIVE members(_)
      members(m) == IF m = {} THEN ""
                    ELSE LET e == CHOOSE x \in m : TRUE
                         IN "\"" \o e[1] \o "\": " \o json_dumps(e[2])
                              \o (IF m = {e} THEN "" ELSE ", ") \o members(m \ {e})
  IN CASE v[1] = "null" -> "null"
       [] v[1] = "str" -> "\"" \o v[2] \o "\""
       [] v[1] = "num" -> CharAt(DIGITS, v[2] + 1)
       [] v[1] = "list" -> "[" \o items(v[2]) \o "]"
       [] v[1] = "dict" -> "{" \o members(v[2]) \o "}"

\* ai.py 205-209: what requests.post can do: raise (no connection, timeout), or
\* return a response with a status and a body that is a JSON text or is not
Responses ==
  LET parts_text(t) ==
        <<"dict", {<<"candidates", <<"list", << <<"dict", {<<"content", <<"dict",
           {<<"parts", <<"list", << <<"dict", {<<"text", t>>}>> >> >> >>} >> >>} >> >> >> >>}>>
      of_candidates(c) == <<"dict", {<<"candidates", c>>}>>
      bodies == { parts_text(<<"str", "Findings">>), parts_text(<<"null">>),
                  parts_text(<<"num", 1>>),
                  <<"dict", {}>>,
                  <<"dict", {<<"error", <<"dict", {<<"message", <<"str", "quota">> >>}>> >>}>>,
                  of_candidates(<<"list", <<>> >>), of_candidates(<<"str", "x">>),
                  of_candidates(<<"null">>),
                  of_candidates(<<"list", << <<"dict", {<<"content", <<"list", <<>> >> >>}>> >> >>),
                  <<"list", <<>> >>, <<"str", "ok">>, <<"null">> }
  IN {[kind |-> "exception", status_code |-> 0, text |-> m, json |-> <<"invalid">>] :
        m \in {"timed out", "connection refused"}}
     \cup {[kind |-> "response", status_code |-> s, text |-> t, json |-> <<"invalid">>] :
             s \in {200, 404, 500}, t \in {"", "<html>Bad Gateway</html>"}}
     \cup {[kind |-> "response", status_code |-> s, text |-> json_dumps(j), json |-> j] :
             s \in {200, 404}, j \in bodies}

\* ai.py 186-217, r what requests.post did; the prompt and the table go into
\* the payload only.  Raised stands for an exception inside the try of 212
ask_gemini(prompt_text, df, r) ==
  LET Raised == <<"raised">>
      \* o.get(k, dflt): only a dict has get
      get(o, k, dflt) ==
        IF o = Raised \/ o[1] # "dict" THEN Raised
        ELSE IF \E e \in o[2] : e[1] = k THEN (CHOOSE e \in o[2] : e[1] = k)[2]
        ELSE dflt
      \* o[0]: of a non-empty list its first element, of a non-empty string
      \* its first character
      first(o) ==
        IF o = Raised THEN Raised
        ELSE IF o[1] = "list" /\ o[2] # <<>> THEN o[2][1]
        ELSE IF o[1] = "str" /\ o[2] # "" THEN <<"str", Head(o[2])>>
        ELSE Raised
      empty == <<"dict", {}>>
      status == CharAt(DIGITS, (r.status_code \div 100) + 1)
                  \o CharAt(DIGITS, ((r.status_code \div 10) % 10) + 1)
                  \o CharAt(DIGITS, (r.status_code % 10) + 1)
      text == get(first(get(get(first(get(r.json, "candidates", <<"list", <<empty>> >>)),
                                "content", empty),
                            "parts", <<"list", <<empty>> >>)),
                  "text", <<"str", "">>)
  IN IF r.kind = "exception"
     THEN [called |-> TRUE, raised |-> FALSE,
           value |-> <<"str", "Error connecting to AI: " \o r.text>>]
     ELSE IF r.status_code = 200
     THEN IF r.json = <<"invalid">>
          THEN \* 210: response.json() raises outside the try
               [called |-> TRUE, raised |-> TRUE, value |-> <<"null">>]
          ELSE IF text = Raised
          THEN [called |-> TRUE, raised |-> FALSE, value |-> <<"str", json_dumps(r.json)>>]
          ELSE [called |-> TRUE, raised |-> FALSE, value |-> text]
     ELSE [called |-> TRUE, raised |-> FALSE,
           value |-> <<"str", "API error: " \o status \o " - " \o r.text>>]

\* ai.py run with the AI mode checkbox on, 109-147 and 169-250; the dashboard
\* of 252-667 is the else branch.  The sidebar is varied in the runs that
\* leave the AI panel as it comes up, and the AI panel in the runs that leave
\* the sidebar's pickers as they come up; the export controls in all of them
AiAssistant ==
  \E p \in {"", "  ", "Summarise the placements"} :
  \E u \in BOOLEAN : \E b \in BOOLEAN :
  \E btn \in BOOLEAN : \E inc \in BOOLEAN :
    LET yn == ai_yes_no_cols(data)
        rt == ai_rating_cols(data)
        labels == ai_collab_labels(data)
        \* 111-140: what the sidebar's pickers can be set to
        picker(qt, cs, qs, ys, gc, st) ==
          [q_type |-> qt, country_sel |-> cs, question_sel |-> qs,
           year_sel |-> ys, grad_choice |-> gc, show_trend |-> st]
        sidebar ==
          {picker("yesno", cs, qs, None, None, FALSE) :
             cs \in country_list(data), qs \in Options(yn, "(no yes/no questions found)")}
          \cup {picker("rating", cs, qs, None, None, FALSE) :
                  cs \in country_list(data), qs \in Options(rt, "(no rating questions found)")}
          \cup {picker("collab", "All", qs, None, None, FALSE) :
                  qs \in Options(labels, "(no collaboration columns found)")}
          \cup {picker("graduate", cs, None, ys, gc, st) :
                  cs \in country_list(data), ys \in Range(years_detected(data)),
                  gc \in DOMAIN GRAD_CATEGORY_KEYWORDS, st \in BOOLEAN}
        first_up == picker("yesno", "All",
                           IF yn # <<>> THEN yn[1] ELSE "(no yes/no questions found)",
                           None, None, FALSE)
        asked == b /\ strip_chars(p) # ""
        dashboard == dashboard_runs(TRUE)
    IN \E c \in (IF p = "" /\ u /\ ~b THEN sidebar ELSE {first_up}) :
       \* no request is made unless ask_gemini is called
       \E r \in (IF asked THEN Responses ELSE {NoResponse}) :
       LET answer == IF asked THEN ask_gemini(p, IF u THEN data ELSE None, r) ELSE NoInsight
           pair == resolve(data, c.year_sel, c.grad_choice)
           \* 252-521: what the dashboard computes under the pickers
           k == IF ~dashboard THEN Blank
                ELSE IF c.q_type = "yesno" /\ c.question_sel \in Range(yn)
                THEN ai_yes_no(data, c.country_sel, c.question_sel)
                ELSE IF c.q_type = "rating" /\ c.question_sel \in Range(rt)
                THEN ai_rating(data, c.country_sel, c.question_sel)
                ELSE IF c.q_type = "collab" /\ c.question_sel \in Range(labels)
                THEN ai_collab(data, "All", c.question_sel)
                ELSE IF c.q_type = "graduate" /\ ~not_found(pair[1], pair[2])
                THEN graduate(data, c.country_sel, c.grad_choice, pair[1], pair[2],
                              c.show_trend)
                ELSE Blank
       IN /\ script' = "ai"
          /\ q_type' = c.q_type
          /\ country_sel' = c.country_sel
          /\ question_sel' = c.question_sel
          /\ year_sel' = c.year_sel
          /\ grad_choice' = c.grad_choice
          /\ show_trend' = c.show_trend
          /\ SetDetected(yn, rt)
          /\ ai_mode' = TRUE
          /\ prompt_input' = p
          /\ use_dataset' = u
          /\ analyze_btn' = b
          /\ response' = r
          /\ insight' = answer
          /\ SetResult([k EXCEPT !.crashed = answer.raised],
                       IF b /\ ~asked
                       THEN {<<"warning", "Please enter a question or request.">>} ELSE {})
          /\ SetExport(dashboard, kpi', btn, inc)
          \* 197-198: ask_gemini reads the first rows of the table
          /\ data' = loaded_after(data, data)

----------------------------------------------------------------------------
(* Specifications: the table is loaded once and never changes; every step is *)
(* one run of a script under some setting of the sidebar controls.           *)

InitWith(tables) ==
  /\ data \in tables
  /\ script = "none"
  /\ q_type = "none"
  /\ country_sel = "All"
  /\ question_sel = None
  /\ year_sel = None
  /\ grad_choice = None
  /\ show_trend = FALSE
  /\ yes_no_cols = <<>>
  /\ rating_cols = <<>>
  /\ kpi = Blank
  /\ messages = {}
  /\ ai_mode = FALSE
  /\ prompt_input = ""
  /\ use_dataset = TRUE
  /\ analyze_btn = FALSE
  /\ response = NoResponse
  /\ insight = NoInsight
  /\ include_charts = TRUE
  /\ export_pdf_btn = FALSE
  /\ charts_for_export = <<>>
  /\ summaries_for_export = <<>>
  /\ pdf = NoPdf

\* Yes/No and Rating runs of both scripts over the answer tables
NextAnswers ==
  \/ AiYesNo
  \/ AiRating
  \/ AppYesNo
  \/ AppRating

SpecAnswers == InitWith(AnswerTables) /\ [][NextAnswers]_vars

\* Graduate Analysis runs of ai.py over the graduate tables
NextGraduate == AiGraduate

SpecGraduate == InitWith(GradTables) /\ [][NextGraduate]_vars

\* Collaboration runs of both scripts over the collaboration tables
NextCollab ==
  \/ AiCollab
  \/ AppCollab

SpecCollab == InitWith(CollabTables) /\ [][NextCollab]_vars

\* runs of ai.py with the AI mode on, and Collaboration runs with the AI
\* mode off
NextAssistant ==
  \/ AiAssistant
  \/ AiCollab

SpecAssistant ==
  InitWith({ExampleAnswerTable, ExampleTable}
             \cup {t \in PairTables : /\ t.cols[2] = OneHotHeader
                                      /\ t.cols[3] = "We collaborate [Exchange visits]"
                                      /\ t.rows[1][2] = OneHotCells[2]
                                      /\ t.rows[1][3] = OneHotCells[3]})
    /\ [][NextAssistant]_vars

----------------------------------------------------------------------------
(* Properties of the schema classifier and of the Yes/No aggregation *)

Ran == script # "none"

\* the non-missing cells of column c of the loaded table
NonMissing(c) == {x \in Range(Column(data, c)) : ~IsNA(x)}

\* the numbers the non-missing cells of column c coerce to
Coerced(c) == {to_numeric_chars(x)[1] : x \in {y \in NonMissing(c) : to_numeric_chars(y) # <<>>}}

NumCoercible(c) ==
  Cardinality({i \in 1..Len(data.rows) :
                 LET x == Column(data, c)[i] IN ~IsNA(x) /\ to_numeric_chars(x) # <<>>})

NumNonMissing(c) == Cardinality({i \in 1..Len(data.rows) : ~IsNA(Column(data, c)[i])})

\* C1: after a run of either script, every non-excluded column with a
\* non-missing value whose non-missing values, trimmed and lowercased, are all
\* "yes" or "no" is in the YesNo list.
C1_YesNoDetected ==
  Ran =>
    \A c \in Range(data.cols) :
      ( /\ ~Excluded(c)
        /\ NonMissing(c) # {}
        /\ \A x \in NonMissing(c) : lower_chars(strip_chars(x[1])) \in {"yes", "no"} )
      => c \in Range(yes_no_cols)

\* C2 as stated: a non-excluded column with a non-missing value, at least half
\* of whose non-missing values coerce to a number, all coerced values in [1,5],
\* is in the Rating list; a column with a coerced value outside [1,5] is not.
C2_RatingAsStated ==
  Ran =>
    \A c \in Range(data.cols) :
      /\ ( /\ ~Excluded(c)
           /\ NonMissing(c) # {}
           /\ 2 * NumCoercible(c) >= NumNonMissing(c)
           /\ \A v \in Coerced(c) : v >= 1 /\ v <= 5 )
         => c \in Range(rating_cols)
      /\ (\E v \in Coerced(c) : v < 1 \/ v > 5) => c \notin Range(rating_cols)

\* C2 amended: the same for the columns the run did not classify YesNo (the
\* Rating test is applied only to them).
C2_RatingUnlessYesNo ==
  Ran =>
    \A c \in Range(data.cols) :
      /\ ( /\ ~Excluded(c)
           /\ NonMissing(c) # {}
           /\ c \notin Range(yes_no_cols)
           /\ 2 * NumCoercible(c) >= NumNonMissing(c)
           /\ \A v \in Coerced(c) : v >= 1 /\ v <= 5 )
         => c \in Range(rating_cols)
      /\ (\E v \in Coerced(c) : v < 1 \/ v > 5) => c \notin Range(rating_cols)

\* a run of ai.py found a Rating column only half of whose values are numbers
C2_Witness ==
  /\ script = "ai"
  /\ \E c \in Range(rating_cols) :
       /\ 2 * NumCoercible(c) = NumNonMissing(c)
       /\ NumCoercible(c) < NumNonMissing(c)

\* C3: after a Yes/No aggregation the three percentages add up to 100.0 up to
\* one-decimal rounding when the total is positive, and are all 0.0 when it is 0.
C3_PercentagesSum ==
  kpi.done = "yesno" =>
    IF kpi.total > 0
    THEN /\ kpi.yes_pct + kpi.no_pct + kpi.other_pct >= 999
         /\ kpi.yes_pct + kpi.no_pct + kpi.other_pct <= 1001
    ELSE kpi.yes_pct = 0 /\ kpi.no_pct = 0 /\ kpi.other_pct = 0

\* the cells of the selected column in the rows passing the country filter
SelectedCells ==
  LET j == ColIdx(data, question_sel)
      k == ColIdx(data, country_col(data))
  IN [i \in {i \in 1..Len(data.rows) :
                country_sel = "All" \/ data.rows[i][k] = Txt(country_sel)}
        |-> data.rows[i][j]]

\* C4: the Yes/No total is the number of non-missing cells of the selected
\* column among the rows passing the country filter, and no missing cell is
\* counted as yes, no or other.
C4_TotalNonMissing ==
  kpi.done = "yesno" =>
    LET present == Cardinality({i \in DOMAIN SelectedCells : ~IsNA(SelectedCells[i])})
    IN /\ kpi.total = present
       /\ kpi.yes_count + kpi.no_count + kpi.other_count <= present

\* the rows of SelectedCells whose non-missing answer, trimmed and lowercased,
\* is in the vocabulary
RowsAnswering(vocabulary) ==
  {i \in DOMAIN SelectedCells :
     /\ ~IsNA(SelectedCells[i])
     /\ lower_chars(strip_chars(SelectedCells[i][1])) \in vocabulary}

\* C20: after a Yes/No aggregation the affirmative count is the number of rows
\* passing the country filter whose answer is an affirmative token, the
\* negative count the number of those whose answer is a negative token (no
\* answer is both), the other count is what remains of the total, and the
\* example table gives total 3, yes 2, no 1, other 0 under "All".
C20_CountsPartitionTotal ==
  kpi.done = "yesno" =>
    /\ kpi.yes_count =
         Cardinality(RowsAnswering({"yes", "y", "true", "1", "x", "^", "selected", "checked"}))
    /\ kpi.no_count = Cardinality(RowsAnswering({"no", "n", "false", "0"}))
    /\ kpi.other_count >= 0
    /\ kpi.yes_count + kpi.no_count + kpi.other_count = kpi.total
    /\ (data = ExampleAnswerTable /\ country_sel = "All")
         => ( /\ kpi.total = 3 /\ kpi.yes_count = 2 /\ kpi.no_count = 1
              /\ kpi.other_count = 0 )

\* the example table aggregated under "All" by app.py
C20_Witness ==
  /\ kpi.done = "yesno"
  /\ script = "app"
  /\ data = ExampleAnswerTable
  /\ country_sel = "All"
  /\ kpi.total = 3

\* an aggregation of ai.py with an answer that is neither affirmative nor negative
C20_WitnessOther ==
  /\ kpi.done = "yesno"
  /\ script = "ai"
  /\ kpi.yes_count > 0
  /\ kpi.no_count > 0
  /\ kpi.other_count > 0

\* the rows of SelectedCells that hold an answer: a cell that is not missing
\* and, trimmed and lowercased, is no blank marker
RowsAnswered ==
  {i \in DOMAIN SelectedCells :
     /\ ~IsNA(SelectedCells[i])
     /\ lower_chars(strip_chars(SelectedCells[i][1])) \notin {"", "nan", "none"}}

\* C27: after a Yes/No aggregation of a column of the YesNo list, under any
\* country filter, every cell of the column that is neither missing nor a
\* blank marker ('', 'nan', 'none') is counted as yes or as no, and the other
\* count holds no more than the missing and blank cells.
C27_VocabularyAgrees ==
  (kpi.done = "yesno" /\ question_sel \in Range(yes_no_cols)) =>
    /\ kpi.yes_count + kpi.no_count = Cardinality(RowsAnswered)
    /\ kpi.other_count <= Cardinality(DOMAIN SelectedCells \ RowsAnswered)

\* an aggregation of ai.py under a selected country over answers in both
\* vocabularies, one of them a token other than "yes" and "no", beside a
\* blank marker
C27_Witness ==
  /\ kpi.done = "yesno"
  /\ script = "ai"
  /\ country_sel # "All"
  /\ question_sel \in Range(yes_no_cols)
  /\ \E i \in DOMAIN SelectedCells : SelectedCells[i] = Txt("none")
  /\ \E i \in DOMAIN SelectedCells : SelectedCells[i] = Txt("1")
  /\ kpi.no_count > 0
  /\ kpi.other_count > 0

\* the Yes/No test of the classifier on column c: it has a non-missing value
\* and its non-missing values, trimmed and lowercased, are all affirmative,
\* negative or blank tokens
PassesYesNoTest(c) ==
  /\ NonMissing(c) # {}
  /\ \A x \in NonMissing(c) :
       lower_chars(strip_chars(x[1])) \in
         {"yes", "y", "true", "1", "x", "^", "selected", "checked",
          "no", "n", "false", "0", "", "nan", "none"}

\* the Rating test of the classifier on column c: at least half of the
\* non-missing values coerce to a number and every coerced value is in [1,5]
PassesRatingTest(c) ==
  /\ NonMissing(c) # {}
  /\ 2 * NumCoercible(c) >= NumNonMissing(c)
  /\ \A v \in Coerced(c) : v >= 1 /\ v <= 5

\* C11: after a run of either script no column is in both the YesNo list and
\* the Rating list, and a non-excluded column that passes both the Yes/No test
\* and the Rating test is in the YesNo list and not in the Rating list.
C11_DisjointByPriority ==
  Ran =>
    /\ Range(yes_no_cols) \cap Range(rating_cols) = {}
    /\ \A c \in Range(data.cols) :
         (~Excluded(c) /\ PassesYesNoTest(c) /\ PassesRatingTest(c))
           => (c \in Range(yes_no_cols) /\ c \notin Range(rating_cols))

\* C12: after a run of either script a column with no non-missing value is in
\* neither the YesNo list nor the Rating list.
C12_EmptyColumnSkipped ==
  Ran =>
    \A c \in Range(data.cols) :
      NonMissing(c) = {} => (c \notin Range(yes_no_cols) /\ c \notin Range(rating_cols))

\* c holds one of the identity keywords, case ignored
HasIdentityKeyword(c) ==
  \E k \in {"name", "email", "phone", "id", "contact"} : contains_chars(lower_chars(c), k)

\* C21: after a run of either script no column whose lowercased name contains
\* an identity keyword is in the YesNo list or in the Rating list.
C21_IdentityColumnsExcluded ==
  Ran =>
    \A c \in Range(data.cols) :
      HasIdentityKeyword(c) => (c \notin Range(yes_no_cols) /\ c \notin Range(rating_cols))

\* a run over a table whose identity column passes the Yes/No test, and one
\* whose identity column passes the Rating test
C21_Witness ==
  /\ Ran
  /\ \E c \in Range(data.cols) :
       /\ HasIdentityKeyword(c)
       /\ PassesYesNoTest(c) \/ PassesRatingTest(c)
       /\ c \notin Range(yes_no_cols) /\ c \notin Range(rating_cols)

C19_CoverageRule ==
  Ran =>
    \A c \in Range(data.cols) :
      2 * NumCoercible(c) < NumNonMissing(c) => c \notin Range(rating_cols)

\* C15: whatever a run aggregated, a percentage whose denominator is 0 is
\* reported as 0.0 and no undefined value comes with it: the three Yes/No
\* shares when the total is 0, the share of ratings >= 4 (and the average
\* beside it) when there is no valid rating, the male and female shares when
\* the overall total is 0.
C15_ZeroDenominatorGivesZero ==
  /\ (kpi.done = "yesno" /\ kpi.total = 0)
       => (kpi.yes_pct = 0 /\ kpi.no_pct = 0 /\ kpi.other_pct = 0)
  /\ (kpi.done = "rating" /\ kpi.total = 0) => (kpi.pct_4_5 = 0 /\ ~kpi.avg_nan)
  /\ (kpi.done = "graduate" /\ kpi.total_all = 0)
       => (kpi.male_pct = 0 /\ kpi.female_pct = 0)

\* C16: the table being loaded, a run never ends in an uncaught error, and a
\* run that computed nothing (no column of the chosen type, metric and year
\* not resolved) says so in a message.
C16_RunsToTheEnd ==
  Ran =>
    /\ ~kpi.crashed
    /\ kpi.done = "none" => messages # {}

\* the list the run classified for the chosen category
ClassifiedList == IF q_type = "yesno" THEN yes_no_cols ELSE rating_cols

\* C24: after a Yes/No or Rating run in which the list classified for the
\* chosen category is empty, or the selected question is not in it, the run
\* has emitted one message and nothing else: no aggregation was made and the
\* run did not end in an error.
C24_EmptyStateOnly ==
  ( /\ Ran
    /\ q_type \in {"yesno", "rating"}
    /\ ClassifiedList = <<>> \/ question_sel \notin Range(ClassifiedList) )
  => (kpi = Blank /\ Cardinality(messages) = 1)

----------------------------------------------------------------------------
(* Properties of the metric resolver *)

\* header c contains the selected year and the gender token (as a substring)
HasYearGender(c, gender) ==
  /\ contains_chars(lower_chars(c), year_sel)
  /\ contains_chars(lower_chars(c), gender)

\* header c contains one of the keyword phrases of the selected metric
HasMetricKeyword(c) ==
  \E k \in Range(GRAD_CATEGORY_KEYWORDS[grad_choice]) : contains_chars(lower_chars(c), k)

\* the first header of the table, in sheet order, that satisfies P (None: none)
FirstHeader(P(_)) ==
  LET hit == {j \in 1..Len(data.cols) : P(data.cols[j])}
  IN IF hit = {} THEN None
     ELSE data.cols[CHOOSE j \in hit : \A k \in hit : j <= k]

KeywordMatch(gender) == FirstHeader(LAMBDA c : HasYearGender(c, gender) /\ HasMetricKeyword(c))

YearGenderMatch(gender) == FirstHeader(LAMBDA c : HasYearGender(c, gender))

\* C5: the column resolved as the male column is never a header that
\* contains "female".
C5_MaleNeverFemale ==
  (q_type = "graduate" /\ kpi.male_col # None) =>
    ~contains_chars(lower_chars(kpi.male_col), "female")

MetricNotFound == <<"warning", "Could not find male/female columns", grad_choice, year_sel>>

\* C6: when no header holds the year with "male", or none holds the year with
\* "female" (so a column stays unresolved after both passes), the run reports
\* MetricNotFound with the metric and the year and computes nothing.
C6_NotFoundNoAggregation ==
  q_type = "graduate" =>
    ( (YearGenderMatch("male") = None \/ YearGenderMatch("female") = None
         \/ kpi.male_col = None \/ kpi.female_col = None)
      => /\ messages = {MetricNotFound}
         /\ kpi.done = "none"
         /\ ~kpi.crashed
         /\ kpi.grouped = <<>>
         /\ kpi.trend_rows = <<>>
         /\ kpi.total_male = 0 /\ kpi.total_female = 0 /\ kpi.total_all = 0 )

\* a run with the trend switched on resolved the male column and not the female one
C6_Witness ==
  /\ q_type = "graduate"
  /\ show_trend
  /\ kpi.male_col # None
  /\ kpi.female_col = None
  /\ messages = {MetricNotFound}

\* C7 as stated: the pair is the pair of first keyword matches, or, when the
\* keyword pass does not yield both, the pair of first year+gender matches.
C7_PairAsStated ==
  q_type = "graduate" =>
    IF KeywordMatch("male") # None /\ KeywordMatch("female") # None
    THEN kpi.male_col = KeywordMatch("male") /\ kpi.female_col = KeywordMatch("female")
    ELSE kpi.male_col = YearGenderMatch("male") /\ kpi.female_col = YearGenderMatch("female")

\* C7 amended: each column on its own is the first keyword match for its
\* gender, or, when there is none for that gender, the first year+gender match
\* (None when there is none either); so the pair is a function of the headers,
\* the metric and the year.
C7_FirstMatchPerGender ==
  q_type = "graduate" =>
    /\ kpi.male_col = IF KeywordMatch("male") # None THEN KeywordMatch("male")
                      ELSE YearGenderMatch("male")
    /\ kpi.female_col = IF KeywordMatch("female") # None THEN KeywordMatch("female")
                        ELSE YearGenderMatch("female")

\* the male column came from the keyword pass although a header without the
\* keyword comes first, and the female column from the fallback pass
C7_Witness ==
  /\ q_type = "graduate"
  /\ Len(data.cols) >= 3
  /\ data.cols[2] = "Trained 2023 Male"
  /\ kpi.male_col = "Placed by JSO 2023 Male"
  /\ kpi.female_col = "Trained 2023 Female"

\* the column the Metric Resolver returns for year y, the selected metric and
\* the gender: the first header with the year, the gender and a keyword of the
\* metric, else the first header with the year and the gender (None: none)
ResolvedFor(y, gender) ==
  LET kw == FirstHeader(LAMBDA c : /\ contains_chars(lower_chars(c), y)
                                   /\ contains_chars(lower_chars(c), gender)
                                   /\ HasMetricKeyword(c))
      yg == FirstHeader(LAMBDA c : /\ contains_chars(lower_chars(c), y)
                                   /\ contains_chars(lower_chars(c), gender))
  IN IF kw # None THEN kw ELSE yg

\* the number in a cell, 0 for a missing cell and for one that is no number
NumberIn(cell) ==
  IF IsNA(cell) \/ to_numeric_chars(cell) = <<>> THEN 0 ELSE to_numeric_chars(cell)[1]

\* the sum of column c of the loaded table over the rows
ColumnSum(c, rows) ==
  SumSeq([i \in 1..Len(rows) |-> NumberIn(rows[i][ColIdx(data, c)])])

\* a point for every detected year for which the resolver returns both columns
ExpectedTrend ==
  {[Year |-> y,
    Male |-> ColumnSum(ResolvedFor(y, "male"), data.rows),
    Female |-> ColumnSum(ResolvedFor(y, "female"), data.rows),
    Total |-> ColumnSum(ResolvedFor(y, "male"), data.rows)
                + ColumnSum(ResolvedFor(y, "female"), data.rows)] :
     y \in {z \in Range(years_detected(data)) :
              ResolvedFor(z, "male") # None /\ ResolvedFor(z, "female") # None}}

\* C13: the points of the trend are those of the detected years for which the
\* Metric Resolver returns both columns for the selected metric, each with the
\* sums of the two columns the resolver returns for its year; a year for which
\* the resolver fails has no point.
C13_TrendUsesResolver ==
  (kpi.done = "graduate" /\ show_trend) =>
    /\ Range(kpi.trend_rows) = ExpectedTrend
    /\ Len(kpi.trend_rows) = Cardinality(ExpectedTrend)

\* the rows of the loaded table that pass the country filter
FilteredRows ==
  SelectSeq(data.rows,
    LAMBDA r : country_sel = "All" \/ r[ColIdx(data, country_col(data))] = Txt(country_sel))

\* C14: after a Graduate aggregation the male and female totals are the sums
\* of the resolved columns over the rows passing the country filter, a missing
\* or non-numeric cell counting 0; the overall total is their sum and is the
\* sum of the per-country totals.
C14_TotalsAreColumnSums ==
  kpi.done = "graduate" =>
    /\ kpi.total_male = ColumnSum(kpi.male_col, FilteredRows)
    /\ kpi.total_female = ColumnSum(kpi.female_col, FilteredRows)
    /\ kpi.total_all = kpi.total_male + kpi.total_female
    /\ kpi.total_all = Total(kpi.grouped, DOMAIN kpi.grouped, 1)
                         + Total(kpi.grouped, DOMAIN kpi.grouped, 2)

\* the rows of the loaded table whose country is the selected one
SelectedCountryRows ==
  SelectSeq(data.rows, LAMBDA r : r[ColIdx(data, country_col(data))] = Txt(country_sel))

\* the headers of the loaded table that hold the year y and the gender
YearGenderHeaders(y, gender) ==
  {c \in Range(data.cols) : /\ contains_chars(lower_chars(c), y)
                            /\ contains_chars(lower_chars(c), gender)}

\* the trend rows hold sums over all rows, the totals over the selected country
TrendOverAllRows ==
  /\ (kpi.done = "graduate" /\ show_trend) =>
        \A i \in 1..Len(kpi.trend_rows) :
          LET row == kpi.trend_rows[i]
          IN /\ \E c \in YearGenderHeaders(row.Year, "male") :
                  row.Male = ColumnSum(c, data.rows)
             /\ \E c \in YearGenderHeaders(row.Year, "female") :
                  row.Female = ColumnSum(c, data.rows)
             /\ row.Total = row.Male + row.Female
  /\ (kpi.done = "graduate" /\ country_sel # "All") =>
        /\ kpi.total_male = ColumnSum(kpi.male_col, SelectedCountryRows)
        /\ kpi.total_female = ColumnSum(kpi.female_col, SelectedCountryRows)
        /\ DOMAIN kpi.grouped \subseteq {country_sel}

C26_Step ==
     ( /\ kpi.done = "graduate" /\ kpi'.done = "graduate"
       /\ show_trend /\ show_trend'
       /\ grad_choice' = grad_choice )
     => kpi'.trend_rows = kpi.trend_rows

\* C26: the trend of a Graduate run does not depend on the country filter: two
\* runs for the same metric under any two country selections show the same
\* trend rows, each row holding sums over all rows of the table, while the
\* male and female totals of a run under a selected country are the sums over
\* the rows of that country.
C26_TrendIgnoresCountry == []TrendOverAllRows /\ [][C26_Step]_vars

\* a run under a selected country whose trend row for the selected year
\* counts more graduates than the totals of the run
C26_Witness ==
  /\ kpi.done = "graduate"
  /\ show_trend
  /\ country_sel # "All"
  /\ kpi.total_all > 0
  /\ \E i \in 1..Len(kpi.trend_rows) :
       /\ kpi.trend_rows[i].Year = year_sel
       /\ kpi.trend_rows[i].Total > kpi.total_all

----------------------------------------------------------------------------
(* Properties of the collaboration analysis *)

\* the cell of row i in the column the run resolved the option to
OptionCell(i) == Column(data, kpi.col)[i]

\* the rows counted and their counts agree: every country of the table has the
\* number of its counted rows as its count, and no count when it has none
CountsOverAllRows ==
  /\ kpi.selected \subseteq 1..Len(data.rows)
  /\ kpi.total = Cardinality(kpi.selected)
  /\ \A c \in countries(data) :
       LET n == Cardinality({i \in kpi.selected :
                               data.rows[i][ColIdx(data, country_col(data))] = Txt(c)})
       IN IF n > 0 THEN c \in DOMAIN kpi.grouped /\ kpi.grouped[c] = n
          ELSE c \notin DOMAIN kpi.grouped

ExampleCount ==
  (script = "app" /\ data = ExampleTable /\ question_sel = "Exchange Visits") =>
    kpi.selected = {1, 2} /\ kpi.total = 2

C8_Step ==
  /\ kpi'.done = "collab" => CountsOverAllRows' /\ ExampleCount'
  /\ ( /\ kpi.done = "collab" /\ kpi'.done = "collab"
       /\ script' = script /\ question_sel' = question_sel )
     => kpi'.selected = kpi.selected /\ kpi'.grouped = kpi.grouped /\ kpi'.total = kpi.total

\* C8: a collaboration run counts over all rows of the table, and two runs of
\* a script for the same option under any two country selections count the
\* same rows and give the same per-country counts; the example table gives 2
\* for "Exchange Visits".
C8_CountryIndependent == [][C8_Step]_vars

\* the example table analysed under a country selection that holds none of the
\* rows counted
C8_Witness ==
  /\ script = "app"
  /\ kpi.done = "collab"
  /\ data = ExampleTable
  /\ country_sel = "Uganda"
  /\ question_sel = "Exchange Visits"
  /\ kpi.total = 2
  /\ DOMAIN kpi.grouped = {"Kenya"}

\* the set of trimmed, lowercased, non-empty parts of a packed text: the
\* stretches between two neighbouring delimiters (or an end of the text)
PartSet(s) ==
  LET n == Len(s)
      cuts == {0, n + 1} \cup {i \in 1..n : CharAt(s, i) \in {";", ",", "/", "|"}}
      stretches == {p \in cuts \X cuts :
                      p[1] < p[2] /\ \A c \in cuts : ~(p[1] < c /\ c < p[2])}
  IN {lower_chars(strip_chars(SubSeq(s, p[1] + 1, p[2] - 1))) : p \in stretches} \ {""}

CellParts(i) == IF IsNA(OptionCell(i)) THEN {} ELSE PartSet(OptionCell(i)[1])

\* C9: for an option of a packed column, a row is counted exactly when the
\* option is one of the trimmed, lowercased parts of its cell, so rows whose
\* cells have the same parts under different delimiters and spacing are
\* counted alike, and the count is the number of such rows.
C9_PackedSelection ==
  (kpi.done = "collab" /\ kpi.mapping = "multi") =>
    /\ kpi.selected = {i \in 1..Len(data.rows) : lower_chars(question_sel) \in CellParts(i)}
    /\ kpi.total = Cardinality(kpi.selected)
    /\ \A i \in 1..Len(data.rows) : \A j \in 1..Len(data.rows) :
         CellParts(i) = CellParts(j) => (i \in kpi.selected <=> j \in kpi.selected)

\* option "A" counted in three rows that write it "A; B", "A,B" and "A | B"
C9_Witness ==
  /\ kpi.done = "collab"
  /\ kpi.mapping = "multi"
  /\ question_sel = "A"
  /\ {Txt("A; B"), Txt("A,B"), Txt("A | B")} \subseteq {OptionCell(i) : i \in kpi.selected}
  /\ kpi.total = 3

\* C10: for an option with a column of its own, a row is counted exactly when
\* its trimmed, lowercased value is an affirmative token or holds the label,
\* whatever the other rows hold.
C10_OneHotSelection ==
  (kpi.done = "collab" /\ kpi.mapping = "str") =>
    kpi.selected =
      {i \in 1..Len(data.rows) :
         /\ ~IsNA(OptionCell(i))
         /\ LET v == lower_chars(strip_chars(OptionCell(i)[1]))
            IN \/ v \in yes_tokens \cup positives
               \/ contains_chars(v, lower_chars(question_sel))}

\* the labels the script of the last run offers for selection
OfferedLabels ==
  IF script = "ai" THEN Range(ai_collab_labels(data)) ELSE app_collab_labels(data)

\* the producers of a label in the script of the last run, as selectors: a
\* column per option whose bracket text is the label, or (app.py) a packed
\* column with a token of its cells whose title form is the label
Producers(label) ==
  IF script = "ai"
  THEN {<<c, None>> : c \in {x \in Range(data.cols) :
                               /\ contains_chars(lower_chars(x), "collaborate")
                               /\ contains_chars(x, "[")
                               /\ ai_label[x] = label}}
  ELSE {<<c, None>> : c \in {x \in Range(data.cols) : is_per_option(x) /\ app_label[x] = label}}
         \cup UNION {{<<c, o[2]>> : o \in {p \in app_options(data, c) : p[1] = label}} :
                       c \in {x \in Range(data.cols) : is_multi(data, x)}}

\* the selector the script of the last run finds for a label
LookedUp(label) ==
  IF script = "ai" THEN <<ai_collab_map(data, label), None>>
  ELSE <<app_mapping(data, label).col, app_mapping(data, label).option>>

\* C18: in a collaboration run every offered label has exactly one producer (no
\* label is offered twice) and looking the label up yields the selector of
\* that producer.
C18_OneSelectorPerLabel ==
  q_type = "collab" => \A label \in OfferedLabels : Producers(label) = {LookedUp(label)}

\* C22: when the selected label has no entry in the map of labels (app.py), the
\* run ends in no error and counts exactly the rows one of whose cells, in any
\* column, contains the label as a substring, case ignored.
C22_FallbackSubstring ==
  (script = "app" /\ q_type = "collab" /\ kpi.mapping = None) =>
    /\ ~kpi.crashed
    /\ kpi.done = "collab"
    /\ kpi.selected =
         {i \in 1..Len(data.rows) :
            \E j \in 1..Len(data.cols) :
              /\ ~IsNA(data.rows[i][j])
              /\ contains_chars(lower_chars(data.rows[i][j][1]), lower_chars(question_sel))}

----------------------------------------------------------------------------
(* Properties of the AI mode *)

\* C25: after a run with the AI mode on no aggregation was made, no chart and
\* no summary was recorded for export and the export trigger did nothing,
\* whatever the state of the export button; a PDF is built only in a run with
\* the AI mode off.
C25_AiModeHidesDashboard ==
  /\ ai_mode => /\ kpi.done = "none"
                /\ charts_for_export = <<>>
                /\ summaries_for_export = <<>>
                /\ pdf = NoPdf
  /\ pdf.state = "built" => ~ai_mode

\* an AI-mode run with the export button pressed over a table that has a
\* Yes/No question, which the dashboard would have analysed
C25_Witness ==
  /\ ai_mode
  /\ export_pdf_btn
  /\ yes_no_cols # <<>>
  /\ question_sel \in Range(yes_no_cols)

\* a run with the AI mode off built a PDF
C25_WitnessOff ==
  /\ ~ai_mode
  /\ pdf.state = "built"
  /\ charts_for_export # <<>>

----------------------------------------------------------------------------
(* Properties of the assistant call *)

\* C17: whatever the HTTP request did (raised, answered with a status other
\* than 200, answered 200 with a body of any shape or with a body that is no
\* JSON), a call of ask_gemini raises nothing and returns a text.
C17_AlwaysText ==
  insight.called => ~insight.raised /\ insight.value[1] = "str"

====
